---------------------------- MODULE Spec2Model ----------------------------
(***************************************************************************)
(* fChart.py: month-average daily insolation on a tilted collector         *)
(* (Klein-Theilacker method) and the slope/azimuth search built on it.     *)
(*                                                                         *)
(* Numbers.  The program computes in numpy float64.  A float is modelled   *)
(* as a record: a number [k |-> "num", v |-> n] standing for n / Scale     *)
(* (fixed point), NaN, or an infinity [k |-> "inf", v |-> +1 or -1].       *)
(* The special values follow IEEE-754 as numpy applies it with its default *)
(* error state: an invalid operation yields NaN and a division by zero     *)
(* yields an infinity (a RuntimeWarning, never an exception); every        *)
(* comparison with NaN is false.  The pipeline's results are rounded to    *)
(* the nearest multiple of 1 / Scale, not to binary64; the annual          *)
(* aggregation is modelled in binary64 as well (see Binary64 below).       *)
(***************************************************************************)
EXTENDS Integers, Sequences, FiniteSets, TLC

\* Fixed-point resolution of a modelled float: the value n stands for n / Scale.
Scale == 10000

\* np.pi, in units of 1 / Scale.
Pi == 31416

HalfPi == Pi \div 2
QuarterPi == Pi \div 4
TwoPi == 2 * Pi

(***************************************************************************)
(* Integer helpers (fixed point, no intermediate overflow).                *)
(***************************************************************************)
IAbs(x) == IF x < 0 THEN -x ELSE x

ISgn(x) == IF x < 0 THEN -1 ELSE IF x > 0 THEN 1 ELSE 0

IMin(x, y) == IF x <= y THEN x ELSE y

IMax(x, y) == IF x >= y THEN x ELSE y

\* round(a * b / Scale) for a, b >= 0, by parts.
MulPos(a, b) ==
    (a \div Scale) * b + (a % Scale) * (b \div Scale)
      + ((a % Scale) * (b % Scale) + Scale \div 2) \div Scale

\* Fixed-point product.
IMul(a, b) == ISgn(a) * ISgn(b) * MulPos(IAbs(a), IAbs(b))

\* The k decimal digits after the point of r / b (0 <= r < b), by long division,
\* the last one rounded.
RECURSIVE FracDigits(_, _, _)
FracDigits(r, b, k) ==
    IF k = 0 THEN (IF 2 * r >= b THEN 1 ELSE 0)
    ELSE LET t == r * 10
         IN  ((t \div b) * (10 ^ (k - 1))) + FracDigits(t % b, b, k - 1)

\* round(a * Scale / b) for a >= 0, b > 0.
DivPos(a, b) == (a \div b) * Scale + FracDigits(a % b, b, 4)

\* Fixed-point quotient, b # 0.
IDiv(a, b) == ISgn(a) * ISgn(b) * DivPos(IAbs(a), IAbs(b))

\* r * r <= v * Scale, exactly.
SquareAtMost(r, v) ==
    LET hi == r \div Scale
        lo == r % Scale
        q  == hi * r + lo * hi + (lo * lo) \div Scale
    IN  q < v \/ (q = v /\ (lo * lo) % Scale = 0)

\* Largest r in lo..hi with r * r <= v * Scale (lo satisfies it), by bisection.
RECURSIVE SqrtBisect(_, _, _)
SqrtBisect(v, lo, hi) ==
    IF hi - lo <= 1 THEN (IF SquareAtMost(hi, v) THEN hi ELSE lo)
    ELSE LET mid == (lo + hi) \div 2
         IN  IF SquareAtMost(mid, v) THEN SqrtBisect(v, mid, hi)
             ELSE SqrtBisect(v, lo, mid)

\* Fixed-point square root of v >= 0.
ISqrt(v) == SqrtBisect(v, 0, IMax(v, Scale))

\* sin t for 0 <= t <= pi/4 (radians): t - t^3/6 + t^5/120 - t^7/5040.
SinSeries(t) ==
    LET t2 == MulPos(t, t)
        h3 == Scale - (t2 \div 42)
        h2 == Scale - (MulPos(t2, h3) \div 20)
        h1 == Scale - (MulPos(t2, h2) \div 6)
    IN  MulPos(t, h1)

\* cos t for 0 <= t <= pi/4 (radians): 1 - t^2/2 + t^4/24 - t^6/720.
CosSeries(t) ==
    LET t2 == MulPos(t, t)
        h3 == Scale - (t2 \div 30)
        h2 == Scale - (MulPos(t2, h3) \div 12)
    IN  Scale - (MulPos(t2, h2) \div 2)

\* sin t for 0 <= t <= pi/2.
SinQ(t) == IF t <= QuarterPi THEN SinSeries(t) ELSE CosSeries(HalfPi - t)

\* sin r for any r (radians, fixed point).
ISin(r) ==
    LET t == r % TwoPi
    IN  IF t <= HalfPi THEN SinQ(t)
        ELSE IF t <= Pi THEN SinQ(Pi - t)
        ELSE IF t <= Pi + HalfPi THEN -SinQ(t - Pi)
        ELSE -SinQ(TwoPi - t)

ICos(r) == ISin(r + HalfPi)

\* Smallest t in lo+1..hi with cos t <= v, given cos lo > v >= cos hi.
RECURSIVE ArccosBisect(_, _, _)
ArccosBisect(v, lo, hi) ==
    IF hi - lo <= 1 THEN hi
    ELSE LET mid == (lo + hi) \div 2
         IN  IF ICos(mid) > v THEN ArccosBisect(v, mid, hi)
             ELSE ArccosBisect(v, lo, mid)

\* arccos v in radians for -1 <= v <= 1.
IArccos(v) == IF ICos(0) <= v THEN 0 ELSE ArccosBisect(v, 0, Pi)

\* x * pi / 180 and x * 180 / pi, with pi / 180 = 3927 / 225000.
IDeg2Rad(x) == ISgn(x) * ((IAbs(x) \div 225000) * 3927
                          + ((IAbs(x) % 225000) * 3927 + 112500) \div 225000)

IRad2Deg(x) == ISgn(x) * ((IAbs(x) \div 3927) * 225000
                          + ((IAbs(x) % 3927) * 225000 + 1963) \div 3927)

(***************************************************************************)
(* numpy float64 values and operations.                                    *)
(***************************************************************************)
Num(n) == [k |-> "num", v |-> n]

NaN == [k |-> "nan", v |-> 0]

Inf(s) == [k |-> "inf", v |-> s]

IsNaN(x) == x.k = "nan"

IsNum(x) == x.k = "num"

IsInf(x) == x.k = "inf"

\* An integer as a float, and the decimal literal n / d.
FromInt(i) == Num(i * Scale)

Dec(n, d) == Num(ISgn(n) * ((IAbs(n) * Scale + d \div 2) \div d))

Zero == FromInt(0)

One == FromInt(1)

\* Position of a non-NaN value in the order of the extended reals.
Ord(x) == IF IsInf(x) THEN x.v * 2000000000 ELSE x.v

\* IEEE comparisons: false as soon as one side is NaN.
FLt(x, y) == ~IsNaN(x) /\ ~IsNaN(y) /\ Ord(x) < Ord(y)

FLe(x, y) == ~IsNaN(x) /\ ~IsNaN(y) /\ Ord(x) <= Ord(y)

FGt(x, y) == FLt(y, x)

FGe(x, y) == FLe(y, x)

FNeg(x) == IF IsNaN(x) THEN NaN ELSE [k |-> x.k, v |-> -x.v]

FAdd(x, y) ==
    IF IsNaN(x) \/ IsNaN(y) THEN NaN
    ELSE IF IsInf(x) /\ IsInf(y) THEN (IF x.v = y.v THEN x ELSE NaN)
    ELSE IF IsInf(x) THEN x
    ELSE IF IsInf(y) THEN y
    ELSE Num(x.v + y.v)

FSub(x, y) == FAdd(x, FNeg(y))

FMul(x, y) ==
    IF IsNaN(x) \/ IsNaN(y) THEN NaN
    ELSE IF IsInf(x) \/ IsInf(y)
         THEN (IF x.v = 0 \/ y.v = 0 THEN NaN ELSE Inf(ISgn(x.v) * ISgn(y.v)))
    ELSE Num(IMul(x.v, y.v))

FDiv(x, y) ==
    IF IsNaN(x) \/ IsNaN(y) THEN NaN
    ELSE IF IsInf(x) THEN (IF IsInf(y) THEN NaN
                           ELSE Inf(x.v * (IF y.v < 0 THEN -1 ELSE 1)))
    ELSE IF IsInf(y) THEN Zero
    ELSE IF y.v = 0 THEN (IF x.v = 0 THEN NaN ELSE Inf(ISgn(x.v)))
    ELSE Num(IDiv(x.v, y.v))

\* x ** 2 and x ** 3.
FSq(x) == FMul(x, x)

FCube(x) == FMul(FMul(x, x), x)

\* np.absolute.
FAbs(x) == IF IsNaN(x) THEN NaN ELSE [k |-> x.k, v |-> IAbs(x.v)]

\* np.minimum and np.maximum: NaN as soon as one side is NaN.
FMin(x, y) == IF IsNaN(x) \/ IsNaN(y) THEN NaN ELSE IF FLe(x, y) THEN x ELSE y
\* A maximum that skips NaN (np.fmax), which the code does not use.
FMaxSkippingNaN(x, y) ==
    IF IsNaN(x) THEN y ELSE IF IsNaN(y) THEN x ELSE IF FGe(x, y) THEN x ELSE y


FMax(x, y) == IF IsNaN(x) \/ IsNaN(y) THEN NaN ELSE IF FGe(x, y) THEN x ELSE y

\* np.sqrt: NaN below zero.
FSqrt(x) ==
    IF IsNaN(x) THEN NaN
    ELSE IF IsInf(x) THEN (IF x.v > 0 THEN x ELSE NaN)
    ELSE IF x.v < 0 THEN NaN
    ELSE Num(ISqrt(x.v))

\* np.sin, np.cos, np.tan (radians).
FSin(x) == IF IsNum(x) THEN Num(ISin(x.v)) ELSE NaN

FCos(x) == IF IsNum(x) THEN Num(ICos(x.v)) ELSE NaN

FTan(x) == FDiv(FSin(x), FCos(x))

\* np.arccos: NaN outside [-1, 1].
FArccos(x) ==
    IF IsNum(x) /\ -Scale <= x.v /\ x.v <= Scale THEN Num(IArccos(x.v)) ELSE NaN

\* np.deg2rad and np.rad2deg.
FDeg2Rad(x) == IF IsNum(x) THEN Num(IDeg2Rad(x.v)) ELSE x

FRad2Deg(x) == IF IsNum(x) THEN Num(IRad2Deg(x.v)) ELSE x

\* Trigonometry of an angle in degrees, as the program writes it:
\* np.sin(np.deg2rad(x)), np.cos(np.deg2rad(x)), np.tan(np.deg2rad(x)).
SinD(x) == FSin(FDeg2Rad(x))

CosD(x) == FCos(FDeg2Rad(x))

TanD(x) == FTan(FDeg2Rad(x))

(***************************************************************************)
(* The calculation, column by column.  A dataframe is a function from      *)
(* column names to columns; a column is a sequence of 12 floats, January   *)
(* to December.                                                            *)
(***************************************************************************)
Months == 1 .. 12

\* df['n']: the typical day of each month.
DayOfYear == <<17, 47, 75, 105, 135, 162, 198, 228, 258, 288, 318, 344>>

\* The default of addStandardColumns' solar_cons (W/m2).
SolarCons == 1367

\* The day counts calcAnnualWeightedAveInsolation and calcAWAIforOptim weigh with.
Weights == <<31, 28, 31, 30, 31, 30, 31, 31, 30, 31, 30, 31>>

\* df['declination'] for day n.
Declination(n) ==
    FMul(Dec(2345, 100),
         SinD(FMul(FDiv(FromInt(360), FromInt(365)), FromInt(284 + n))))

\* df['Isc_prime'] for day n.
IscPrime(n) ==
    LET th  == FDiv(FMul(FromInt(n - 1), FromInt(360)), FromInt(365))
        th1 == FMul(FromInt(1), th)
        th2 == FMul(FromInt(2), th)
    IN  FMul(FromInt(SolarCons),
             FAdd(FAdd(FAdd(FAdd(Dec(100011, 100000),
                                 FMul(Dec(34221, 1000000), CosD(th1))),
                            FMul(Dec(1280, 1000000), SinD(th1))),
                       FMul(Dec(719, 1000000), CosD(th2))),
                  FMul(Dec(77, 1000000), SinD(th2))))

\* addStandardColumns(df): the columns that depend on the day of the year only.
AddStandardColumns(df) ==
    [n           |-> [m \in Months |-> FromInt(DayOfYear[m])],
     declination |-> [m \in Months |-> Declination(DayOfYear[m])],
     Isc_prime   |-> [m \in Months |-> IscPrime(DayOfYear[m])]] @@ df

\* df['sunset_hour_angle'].
SunsetHourAngle(latitude, declination) ==
    FRad2Deg(FArccos(FMul(FNeg(TanD(latitude)), TanD(declination))))

\* df['ET_insol'].
ETInsol(latitude, declination, isc, ws) ==
    FMul(FMul(FDiv(FromInt(24), Num(Pi)), FDiv(isc, FromInt(1000))),
         FAdd(FMul(FMul(CosD(latitude), CosD(declination)), SinD(ws)),
              FMul(FMul(FDeg2Rad(ws), SinD(latitude)), SinD(declination))))

\* df['clearness'].
Clearness(h, et) == FDiv(h, et)

\* The diffuse-fraction polynomial with the factor H cancelled, which the code
\* does not do.
DiffuseFractionCancelled(h, k) ==
    FSub(FAdd(FSub(Dec(139, 100), FMul(Dec(4027, 1000), k)),
              FMul(Dec(5531, 1000), FSq(k))),
         FMul(Dec(3108, 1000), FCube(k)))

\* df['diffuse_fraction']: h * f(k) / h, the division as written.
DiffuseFraction(h, k) ==
    FDiv(FMul(h, FSub(FAdd(FSub(Dec(139, 100), FMul(Dec(4027, 1000), k)),
                           FMul(Dec(5531, 1000), FSq(k))),
                      FMul(Dec(3108, 1000), FCube(k)))),
         h)

\* addCalcSolarVars(df, latitude).
AddCalcSolarVars(df, latitude) ==
    LET ws == [m \in Months |-> SunsetHourAngle(latitude, df.declination[m])]
        et == [m \in Months |->
                 ETInsol(latitude, df.declination[m], df.Isc_prime[m], ws[m])]
        k  == [m \in Months |-> Clearness(df.insolation_horizontal[m], et[m])]
    IN  [sunset_hour_angle |-> ws,
         ET_insol          |-> et,
         clearness         |-> k,
         diffuse_fraction  |->
             [m \in Months |-> DiffuseFraction(df.insolation_horizontal[m], k[m])]]
        @@ df

\* df['a'], df['b'], df['d'] from the sunset hour angle ws (degrees).
CoefA(ws) == FAdd(Dec(409, 1000), FMul(Dec(5016, 10000), SinD(FSub(ws, FromInt(60)))))

CoefB(ws) == FSub(Dec(6609, 10000), FMul(Dec(4767, 10000), SinD(FSub(ws, FromInt(60)))))

CoefD(ws) == FSub(SinD(ws), FDeg2Rad(FMul(ws, CosD(ws))))

\* df['A'], df['B'], df['C'].
GeomA(latitude, azimuth, slope) ==
    FAdd(CosD(slope), FMul(FMul(TanD(latitude), CosD(azimuth)), SinD(slope)))

GeomB(ws, declination, azimuth, slope) ==
    FAdd(FMul(CosD(ws), CosD(slope)),
         FMul(FMul(TanD(declination), SinD(slope)), CosD(azimuth)))

GeomC(latitude, azimuth, slope) ==
    FDiv(FMul(SinD(slope), SinD(azimuth)), CosD(latitude))

\* The argument of arccos in omega_sr_abs (sign = +1) and omega_ss_abs (sign = -1):
\* (A B +- C sqrt(A^2 - B^2 + C^2)) / (A^2 + C^2).
HourAngleCos(A, B, C, sign) ==
    LET root == FMul(C, FSqrt(FAdd(FSub(FSq(A), FSq(B)), FSq(C))))
        num  == IF sign > 0 THEN FAdd(FMul(A, B), root) ELSE FSub(FMul(A, B), root)
    IN  FDiv(num, FAdd(FSq(A), FSq(C)))

\* df['omega_sr_abs'] and df['omega_ss_abs'].
OmegaSrAbs(ws, A, B, C) == FAbs(FMin(ws, FRad2Deg(FArccos(HourAngleCos(A, B, C, 1)))))

OmegaSsAbs(ws, A, B, C) == FAbs(FMin(ws, FRad2Deg(FArccos(HourAngleCos(A, B, C, -1)))))

\* The sign condition without its second alternative.
SignCondBothPositive(A, B) == FGt(A, Zero) /\ FGt(B, Zero)

\* The condition both np.where calls select the signs with.
SignCond(A, B) == (FGt(A, Zero) /\ FGt(B, Zero)) \/ FGe(A, B)

\* A sunset hour angle that is never negated.
OmegaSsUnsigned(A, B, ssAbs) == ssAbs

\* df['omega_sr'] and df['omega_ss'].
OmegaSr(A, B, srAbs) == IF SignCond(A, B) THEN FNeg(srAbs) ELSE srAbs

OmegaSs(A, B, ssAbs) == IF SignCond(A, B) THEN ssAbs ELSE FNeg(ssAbs)

\* One definite integral of df['D'], from hour angle lo to hour angle hi (degrees):
\* (1 / (2 d)) * (deg2rad((b A / 2 - a' B) (hi - lo))
\*                + (a' A - b B) (sin hi - sin lo) - a' C (cos hi - cos lo)
\*                + (b A / 2) (sin hi cos hi - sin lo cos lo)
\*                + (b C / 2) (sin^2 hi - sin^2 lo)).
Integral(r, hi, lo) ==
    LET bA2 == FDiv(FMul(r.b, r.A), FromInt(2))
        bC2 == FDiv(FMul(r.b, r.C), FromInt(2))
        t1  == FDeg2Rad(FMul(FSub(bA2, FMul(r.a_prime, r.B)), FSub(hi, lo)))
        t2  == FMul(FSub(FMul(r.a_prime, r.A), FMul(r.b, r.B)), FSub(SinD(hi), SinD(lo)))
        t3  == FMul(FMul(r.a_prime, r.C), FSub(CosD(hi), CosD(lo)))
        t4  == FMul(bA2, FSub(FMul(SinD(hi), CosD(hi)), FMul(SinD(lo), CosD(lo))))
        t5  == FMul(bC2, FSub(FSq(SinD(hi)), FSq(SinD(lo))))
    IN  FMul(FDiv(FromInt(1), FMul(FromInt(2), r.d)),
             FAdd(FAdd(FSub(FAdd(t1, t2), t3), t4), t5))

\* A second branch that floors each integral at 0 before adding them.
DWrappedFlooredEach(i1, i2) == FAdd(FMax(Zero, i1), FMax(Zero, i2))

\* The first branch of df['D']: one integral from omega_sr to omega_ss, floored at 0.
DSingle(i) == FMax(Zero, i)

\* The second branch of df['D']: the integrals from -sunset_hour_angle to omega_ss
\* and from omega_sr to sunset_hour_angle, combined inside one np.maximum(0.0, .).
DWrapped(i1, i2) == FMax(Zero, FAdd(i1, i2))

\* df['D'] of one month; r holds the month's a_prime, b, d, A, B, C, the sunset
\* hour angle ws and omega_sr, omega_ss.
TiltFactorD(r) ==
    IF FGe(r.omega_ss, r.omega_sr)
    THEN DSingle(Integral(r, r.omega_ss, r.omega_sr))
    ELSE DWrapped(Integral(r, r.omega_ss, FNeg(r.ws)), Integral(r, r.ws, r.omega_sr))

\* r_bar with the view factors of sky and ground exchanged.
RBarSwapped(D, diffuse, albedo, slope) ==
    FAdd(FAdd(D, FDiv(FMul(diffuse, FSub(One, CosD(slope))), FromInt(2))),
         FDiv(FMul(albedo, FAdd(One, CosD(slope))), FromInt(2)))

\* df['r_bar'].
RBar(D, diffuse, albedo, slope) ==
    FAdd(FAdd(D, FDiv(FMul(diffuse, FAdd(One, CosD(slope))), FromInt(2))),
         FDiv(FMul(albedo, FSub(One, CosD(slope))), FromInt(2)))

\* The working record of month m for the integrals of df['D'].
MonthRow(df, m) ==
    [a_prime |-> df.a_prime[m], b |-> df.b[m], d |-> df.d[m],
     A |-> df.A[m], B |-> df.B[m], C |-> df.C[m],
     ws |-> df.sunset_hour_angle[m],
     omega_sr |-> df.omega_sr[m], omega_ss |-> df.omega_ss[m]]

\* addCalcMethodVars, its column assignments in order: a, a_prime, b, d, A, B, C ...
WithCoefs(df, latitude, azimuth, slope) ==
    [a       |-> [m \in Months |-> CoefA(df.sunset_hour_angle[m])],
     a_prime |-> [m \in Months |->
                    FSub(CoefA(df.sunset_hour_angle[m]), df.diffuse_fraction[m])],
     b       |-> [m \in Months |-> CoefB(df.sunset_hour_angle[m])],
     d       |-> [m \in Months |-> CoefD(df.sunset_hour_angle[m])],
     A       |-> [m \in Months |-> GeomA(latitude, azimuth, slope)],
     B       |-> [m \in Months |->
                    GeomB(df.sunset_hour_angle[m], df.declination[m], azimuth, slope)],
     C       |-> [m \in Months |-> GeomC(latitude, azimuth, slope)]] @@ df

\* ... omega_sr_abs and omega_ss_abs ...
WithOmegaAbs(df) ==
    [omega_sr_abs |-> [m \in Months |->
                         OmegaSrAbs(df.sunset_hour_angle[m], df.A[m], df.B[m], df.C[m])],
     omega_ss_abs |-> [m \in Months |->
                         OmegaSsAbs(df.sunset_hour_angle[m], df.A[m], df.B[m], df.C[m])]]
    @@ df

\* ... omega_sr and omega_ss ...
WithOmegas(df) ==
    [omega_sr |-> [m \in Months |-> OmegaSr(df.A[m], df.B[m], df.omega_sr_abs[m])],
     omega_ss |-> [m \in Months |-> OmegaSs(df.A[m], df.B[m], df.omega_ss_abs[m])]]
    @@ df

\* ... D ...
WithD(df) == [D |-> [m \in Months |-> TiltFactorD(MonthRow(df, m))]] @@ df

\* ... and r_bar.
WithRBar(df, slope) ==
    [r_bar |-> [m \in Months |->
                  RBar(df.D[m], df.diffuse_fraction[m], df.albedo[m], slope)]] @@ df

\* addCalcMethodVars(df, latitude, azimuth, slope).
AddCalcMethodVars(df, latitude, azimuth, slope) ==
    WithRBar(WithD(WithOmegas(WithOmegaAbs(WithCoefs(df, latitude, azimuth, slope)))),
             slope)

\* The last column calcTotalInsolation adds: df['insolation_tilted'].
AddInsolationTilted(df) ==
    [insolation_tilted |->
        [m \in Months |-> FMul(df.r_bar[m], df.insolation_horizontal[m])]] @@ df

\* np.dot(weights, column): the products summed from January to December.
RECURSIVE DotFrom(_, _, _)
DotFrom(w, col, m) ==
    IF m = 0 THEN Zero
    ELSE FAdd(DotFrom(w, col, m - 1), FMul(FromInt(w[m]), col[m]))

Dot(w, col) == DotFrom(w, col, 12)

\* An objective that replaces NaN by a finite penalty, which the code does not do.
AWAIforOptimPenalised(df) ==
    IF IsNaN(Dot(Weights, df.insolation_tilted))
    THEN FromInt(1000)
    ELSE FDiv(Dot(Weights, df.insolation_tilted), FromInt(-365))

\* What calcAnnualWeightedAveInsolation returns for the frame df.
AnnualWeightedAve(df) == FDiv(Dot(Weights, df.insolation_tilted), FromInt(365))

\* What calcAWAIforOptim returns for the frame df: the same, negated.
AWAIforOptim(df) == FDiv(Dot(Weights, df.insolation_tilted), FromInt(-365))

(***************************************************************************)
(* Binary64.  Whether np.dot(weights, column) / 365.0 gives back a value   *)
(* exactly depends on the rounding of every product, sum and quotient, so  *)
(* the aggregation is modelled a second time on binary64 numbers proper:   *)
(* a positive double is [m |-> significand, e |-> exponent], its value     *)
(* m * 2^e with 2^52 <= m < 2^53, and zero is [m |-> 0, e |-> 0].  A       *)
(* significand is a natural number held in limbs of LimbBits bits, least   *)
(* significant first.  Every operation rounds to nearest, ties to even.    *)
(***************************************************************************)
LimbBits == 21
Limbs == 4
Base == 2 ^ LimbBits

BigZero == [i \in 1 .. Limbs |-> 0]
BigOf(n) == [i \in 1 .. Limbs |-> IF i = 1 THEN n ELSE 0]

RECURSIVE BigMulFrom(_, _, _, _)
BigMulFrom(x, w, i, carry) ==
    IF i > Limbs THEN <<>>
    ELSE <<(x[i] * w + carry) % Base>>
           \o BigMulFrom(x, w, i + 1, (x[i] * w + carry) \div Base)

\* x * w for a natural w < 1024.
BigMulSmall(x, w) == BigMulFrom(x, w, 1, 0)

RECURSIVE BigAddFrom(_, _, _, _)
BigAddFrom(x, y, i, carry) ==
    IF i > Limbs THEN <<>>
    ELSE <<(x[i] + y[i] + carry) % Base>>
           \o BigAddFrom(x, y, i + 1, (x[i] + y[i] + carry) \div Base)

BigAdd(x, y) == BigAddFrom(x, y, 1, 0)

RECURSIVE BigSubFrom(_, _, _, _)
BigSubFrom(x, y, i, borrow) ==
    IF i > Limbs THEN <<>>
    ELSE <<(x[i] - y[i] - borrow + Base) % Base>>
           \o BigSubFrom(x, y, i + 1, IF x[i] - y[i] - borrow < 0 THEN 1 ELSE 0)

\* x - y for x >= y.
BigSub(x, y) == BigSubFrom(x, y, 1, 0)

RECURSIVE BigCmpFrom(_, _, _)
BigCmpFrom(x, y, i) ==
    IF i = 0 THEN 0
    ELSE IF x[i] > y[i] THEN 1
    ELSE IF x[i] < y[i] THEN -1
    ELSE BigCmpFrom(x, y, i - 1)

\* -1, 0 or 1 as x is below, equal to or above y.
BigCmp(x, y) == BigCmpFrom(x, y, Limbs)

RECURSIVE BigDivFrom(_, _, _, _)
BigDivFrom(x, d, i, rem) ==
    IF i = 0 THEN [q |-> <<>>, r |-> rem]
    ELSE LET lower == BigDivFrom(x, d, i - 1, (rem * Base + x[i]) % d)
         IN  [q |-> lower.q \o <<(rem * Base + x[i]) \div d>>, r |-> lower.r]

\* Quotient and remainder of x by a natural d, 0 < d < 1024.
BigDivSmall(x, d) == BigDivFrom(x, d, Limbs, 0)

RECURSIVE BitLen(_)
BitLen(n) == IF n = 0 THEN 0 ELSE 1 + BitLen(n \div 2)

RECURSIVE BigBitLenFrom(_, _)
BigBitLenFrom(x, i) ==
    IF i = 0 THEN 0
    ELSE IF x[i] # 0 THEN LimbBits * (i - 1) + BitLen(x[i])
    ELSE BigBitLenFrom(x, i - 1)

\* The number of significant bits of x.
BigBitLen(x) == BigBitLenFrom(x, Limbs)

\* x shifted by whole limbs, up (n > 0) or down (n < 0).
BigShiftLimbs(x, n) ==
    [i \in 1 .. Limbs |-> IF i - n \in 1 .. Limbs THEN x[i - n] ELSE 0]

\* x * 2^s for 0 <= s < LimbBits.
BigShlBits(x, s) ==
    [i \in 1 .. Limbs |->
        (x[i] % (2 ^ (LimbBits - s))) * (2 ^ s)
          + (IF i > 1 THEN x[i - 1] \div (2 ^ (LimbBits - s)) ELSE 0)]

\* x \div 2^s for 0 <= s < LimbBits.
BigShrBits(x, s) ==
    [i \in 1 .. Limbs |->
        (x[i] \div (2 ^ s))
          + (IF i < Limbs THEN (x[i + 1] % (2 ^ s)) * (2 ^ (LimbBits - s)) ELSE 0)]

\* x * 2^s and x \div 2^s for any s >= 0.
BigShl(x, s) == BigShlBits(BigShiftLimbs(x, s \div LimbBits), s % LimbBits)

BigShr(x, s) == BigShrBits(BigShiftLimbs(x, -(s \div LimbBits)), s % LimbBits)

\* The double zero.
Zero64 == [m |-> BigZero, e |-> 0]

\* The number n * 2^e (n > 0, more than 53 bits long) and whatever lies below
\* its last bit (sticky), rounded to 53 bits.
RoundDown64(n, e, sticky, s) ==
    LET q    == BigShr(n, s)
        cmp  == BigCmp(BigSub(n, BigShl(q, s)), BigShl(BigOf(1), s - 1))
        up   == cmp > 0 \/ (cmp = 0 /\ (sticky \/ q[1] % 2 = 1))
        m    == IF up THEN BigAdd(q, BigOf(1)) ELSE q
    IN  IF BigBitLen(m) > 53 THEN [m |-> BigShr(m, 1), e |-> e + s + 1]
        ELSE [m |-> m, e |-> e + s]

\* The double nearest to n * 2^e (+ sticky).
Round64(n, e, sticky) ==
    IF BigBitLen(n) = 0 THEN Zero64
    ELSE IF BigBitLen(n) <= 53
    THEN [m |-> BigShl(n, 53 - BigBitLen(n)), e |-> e - (53 - BigBitLen(n))]
    ELSE RoundDown64(n, e, sticky, BigBitLen(n) - 53)

\* The double of a natural number n < Base (exact).
Nat64(n) == Round64(BigOf(n), 0, FALSE)

\* The exact sum hi + lo of two numbers m * 2^e with hi.e >= lo.e, rounded.
AddAligned64(hi, lo, up) ==
    Round64(BigAdd(BigShl(hi.m, up), BigShr(lo.m, (hi.e - lo.e) - up)),
            hi.e - up,
            lo.m # BigShl(BigShr(lo.m, (hi.e - lo.e) - up), (hi.e - lo.e) - up))

\* The rounded sum of x and y, each zero or m * 2^e with m of 53 to 58 bits.
AddExact64(x, y) ==
    IF x.m = BigZero THEN Round64(y.m, y.e, FALSE)
    ELSE IF y.m = BigZero THEN Round64(x.m, x.e, FALSE)
    ELSE IF x.e >= y.e THEN AddAligned64(x, y, IMin(x.e - y.e, 24))
    ELSE AddAligned64(y, x, IMin(y.e - x.e, 24))

\* x + y in binary64.
Add64(x, y) == AddExact64(x, y)

\* x * w in binary64, for a natural w < 32 (a double itself).
Mul64(x, w) == Round64(BigMulSmall(x.m, w), x.e, FALSE)

\* fma(x, w, acc) = x * w + acc with a single rounding.
Fma64(x, w, acc) == AddExact64([m |-> BigMulSmall(x.m, w), e |-> x.e], acc)

\* x / d in binary64, for a natural d, 0 < d < 1024 (a double itself).
Div64(x, d) ==
    LET qr == BigDivSmall(BigShl(x.m, LimbBits), d)
    IN  Round64(qr.q, x.e - LimbBits, qr.r # 0)

RECURSIVE DotSequential64(_, _, _)
DotSequential64(w, col, m) ==
    IF m = 0 THEN Zero64
    ELSE Add64(DotSequential64(w, col, m - 1), Mul64(col[m], w[m]))

RECURSIVE DotFused64(_, _, _)
DotFused64(w, col, m) ==
    IF m = 0 THEN Zero64
    ELSE Fma64(col[m], w[m], DotFused64(w, col, m - 1))

\* The ways np.dot accumulates 12 products: one after the other, each product
\* rounded before it is added, or fused with its addition (one rounding).
DotOrders == {"sequential", "fused"}

\* np.dot(weights, col) in binary64.
Dot64(w, col, order) ==
    IF order = "fused" THEN DotFused64(w, col, 12) ELSE DotSequential64(w, col, 12)

\* An average over a leap year's 366 days, in binary64.
AnnualWeightedAveLeap64(col, order) == Div64(Dot64(Weights, col, order), 366)

\* What calcAnnualWeightedAveInsolation returns for the column col, in binary64.
AnnualWeightedAve64(col, order) == Div64(Dot64(Weights, col, order), 365)

(***************************************************************************)
(* Inputs.  Inputs/LocationSolarData.csv holds one location's 12 monthly   *)
(* rows; a site pairs such a file with the latitude its callers pass.      *)
(***************************************************************************)
\* A two-column frame from monthly values given in hundredths.
Frame(h, alb) ==
    [insolation_horizontal |-> [m \in Months |-> Dec(h[m], 100)],
     albedo                |-> [m \in Months |-> Dec(alb[m], 100)]]

Sites ==
    { [latitude |-> 45,
       file |-> Frame(<<180, 260, 370, 480, 580, 640, 630, 550, 430, 300, 190, 150>>,
                      <<60, 60, 20, 20, 20, 20, 20, 20, 20, 20, 20, 60>>)],
      [latitude |-> 45,
       file |-> Frame(<<40, 40, 40, 40, 40, 40, 40, 40, 40, 40, 40, 40>>,
                      <<20, 20, 20, 20, 20, 20, 20, 20, 20, 20, 20, 20>>)],
      [latitude |-> 60,
       file |-> Frame(<<30, 90, 200, 360, 500, 560, 530, 400, 240, 110, 40, 20>>,
                      <<60, 60, 60, 20, 20, 20, 20, 20, 20, 20, 60, 60>>)],
      [latitude |-> 67,
       file |-> Frame(<<0, 50, 150, 300, 450, 500, 500, 360, 200, 70, 10, 0>>,
                      <<70, 70, 70, 70, 20, 20, 20, 20, 20, 20, 70, 70>>)] }

\* The slopes and azimuths (degrees) the direct calls are made with.
Slopes == {0, 30, 60, -30, 140}

Azimuths == {0, 5, 50, 135}

\* The minimizer's starting point [30.0, 5.0].
Seed == <<FromInt(30), FromInt(5)>>

\* The points the minimizer may try after the starting point.
Candidates == { <<FromInt(45), FromInt(0)>>, <<FromInt(-30), FromInt(0)>>,
                <<FromInt(140), FromInt(50)>> }

\* Objective evaluations of one getOptimSlopeAz run the model follows.
MaxEvals == 3

(***************************************************************************)
(* State.                                                                  *)
(***************************************************************************)
VARIABLES
    site,    \* the location: its latitude and the file on disk
    call,    \* the top-level call in progress: "none", "total", "annual", "optim"
    pc,      \* where the call stands
    args,    \* latitude, slope, azimuth of the running calcTotalInsolation
    df,      \* the dataframe of the running (or last) calcTotalInsolation
    ret,     \* what the last calcAnnualWeightedAveInsolation / calcAWAIforOptim returned
    reads,   \* readSolarData calls made since the top-level call began
    opt      \* the minimizer: evaluations started, point under evaluation, best vertex

vars == <<site, call, pc, args, df, ret, reads, opt>>

NoValue == [k |-> "none", v |-> 0]

NoFrame == <<>>

NoArgs == [latitude |-> NoValue, slope |-> NoValue, azimuth |-> NoValue]

NoOpt == [evals |-> 0, x |-> <<>>, best |-> <<>>, fbest |-> NoValue, result |-> <<>>]

Init ==
    /\ site \in Sites
    /\ call = "none"
    /\ pc = "idle"
    /\ args = NoArgs
    /\ df = NoFrame
    /\ ret = NoValue
    /\ reads = 0
    /\ opt = NoOpt

(***************************************************************************)
(* Operations.                                                             *)
(***************************************************************************)
\* calcTotalInsolation(latitude, slope, azimuth) is entered.
EnterTotal(entry, latitude, slope, azimuth) ==
    /\ call' = entry
    /\ pc' = "read"
    /\ args' = [latitude |-> latitude, slope |-> slope, azimuth |-> azimuth]

\* A caller evaluates calcTotalInsolation(latitude, slope, azimuth).
CallTotalInsolation ==
    /\ call = "none"
    /\ \E s \in Slopes, az \in Azimuths :
          EnterTotal("total", FromInt(site.latitude), FromInt(s), FromInt(az))
    /\ UNCHANGED <<site, df, ret, reads, opt>>

\* A caller evaluates calcAnnualWeightedAveInsolation(latitude, slope, azimuth).
CallAnnualWeightedAve ==
    /\ call = "none"
    /\ \E s \in Slopes, az \in Azimuths :
          EnterTotal("annual", FromInt(site.latitude), FromInt(s), FromInt(az))
    /\ UNCHANGED <<site, df, ret, reads, opt>>

\* A caller evaluates getOptimSlopeAz(latitude): optimize.minimize starts.
CallGetOptimSlopeAz ==
    /\ call = "none"
    /\ call' = "optim"
    /\ pc' = "minimize"
    /\ args' = [NoArgs EXCEPT !.latitude = FromInt(site.latitude)]
    /\ UNCHANGED <<site, df, ret, reads, opt>>

\* The minimizer evaluates the objective calcAWAIforOptim(slopeaz, latitude):
\* first at the starting point, then at a point of its choice.
ObjectiveCall ==
    /\ call = "optim" /\ pc = "minimize"
    /\ opt.evals < MaxEvals
    /\ \E x \in (IF opt.evals = 0 THEN {Seed} ELSE Candidates) :
          /\ opt' = [opt EXCEPT !.evals = @ + 1, !.x = x]
          /\ EnterTotal("optim", args.latitude, x[1], x[2])
    /\ UNCHANGED <<site, df, ret, reads>>

\* A read that is served from memory after the first one.
ReadSolarDataCached ==
    /\ pc = "read"
    /\ df' = site.file
    /\ reads' = IF reads = 0 THEN 1 ELSE reads
    /\ pc' = "standard"
    /\ UNCHANGED <<site, call, args, ret, opt>>

\* readSolarData('Inputs/LocationSolarData.csv'): the file is read from disk.
ReadSolarData ==
    /\ pc = "read"
    /\ df' = site.file
    /\ reads' = reads + 1
    /\ pc' = "standard"
    /\ UNCHANGED <<site, call, args, ret, opt>>

StepStandardColumns ==
    /\ pc = "standard"
    /\ df' = AddStandardColumns(df)
    /\ pc' = "solar"
    /\ UNCHANGED <<site, call, args, ret, reads, opt>>

StepCalcSolarVars ==
    /\ pc = "solar"
    /\ df' = AddCalcSolarVars(df, args.latitude)
    /\ pc' = "method"
    /\ UNCHANGED <<site, call, args, ret, reads, opt>>

StepCalcMethodVars ==
    /\ pc = "method"
    /\ df' = AddCalcMethodVars(df, args.latitude, args.azimuth, args.slope)
    /\ pc' = "tilted"
    /\ UNCHANGED <<site, call, args, ret, reads, opt>>

\* calcTotalInsolation adds df['insolation_tilted'] and returns df.
ReturnTotalInsolation ==
    /\ pc = "tilted"
    /\ df' = AddInsolationTilted(df)
    /\ pc' = IF call = "total" THEN "done" ELSE "aggregate"
    /\ UNCHANGED <<site, call, args, ret, reads, opt>>

\* calcAnnualWeightedAveInsolation returns.
ReturnAnnualWeightedAve ==
    /\ call = "annual" /\ pc = "aggregate"
    /\ ret' = AnnualWeightedAve(df)
    /\ pc' = "done"
    /\ UNCHANGED <<site, call, args, df, reads, opt>>

\* calcAWAIforOptim returns its value to the minimizer, which keeps the point
\* as its best vertex when the value is below the best so far.
ObjectiveReturn ==
    /\ call = "optim" /\ pc = "aggregate"
    /\ ret' = AWAIforOptim(df)
    /\ opt' = IF opt.evals = 1 \/ FLt(ret', opt.fbest)
              THEN [opt EXCEPT !.best = opt.x, !.fbest = ret']
              ELSE opt
    /\ pc' = "minimize"
    /\ UNCHANGED <<site, call, args, df, reads>>

\* optimize.minimize ends and getOptimSlopeAz returns result.x.
ReturnGetOptimSlopeAz ==
    /\ call = "optim" /\ pc = "minimize"
    /\ opt.evals >= 1
    /\ opt' = [opt EXCEPT !.result = opt.best]
    /\ pc' = "done"
    /\ UNCHANGED <<site, call, args, df, ret, reads>>

Next ==
    \/ CallTotalInsolation
    \/ CallAnnualWeightedAve
    \/ CallGetOptimSlopeAz
    \/ ObjectiveCall
    \/ ReadSolarData
    \/ StepStandardColumns
    \/ StepCalcSolarVars
    \/ StepCalcMethodVars
    \/ ReturnTotalInsolation
    \/ ReturnAnnualWeightedAve
    \/ ObjectiveReturn
    \/ ReturnGetOptimSlopeAz

Spec == Init /\ [][Next]_vars

(***************************************************************************)
(* Vocabulary of the properties.                                           *)
(***************************************************************************)
\* Column c of df has been computed for the arguments in args.
Computed(c) == pc # "read" /\ c \in DOMAIN df

\* x lies outside [-1, 1]: np.arccos(x) is a domain error.
ArccosOut(x) == FGt(x, One) \/ FLt(x, FNeg(One))

\* Month m's sunset hour angle takes arccos outside [-1, 1].
SunsetDomainError(m) ==
    ArccosOut(FMul(FNeg(TanD(args.latitude)), TanD(df.declination[m])))

\* Month m takes the square root of a negative A^2 - B^2 + C^2.
SqrtDomainError(m) ==
    FLt(FAdd(FSub(FSq(df.A[m]), FSq(df.B[m])), FSq(df.C[m])), Zero)

\* Month m divides by A^2 + C^2 = 0, or takes arccos outside [-1, 1] for a tilted
\* hour angle.
HourAngleDomainError(m) ==
    \/ FAdd(FSq(df.A[m]), FSq(df.C[m])) = Zero
    \/ ArccosOut(HourAngleCos(df.A[m], df.B[m], df.C[m], 1))
    \/ ArccosOut(HourAngleCos(df.A[m], df.B[m], df.C[m], -1))

\* Month m divides 0 by 0 in diffuse_fraction.
ZeroHorizontal(m) == df.insolation_horizontal[m] = Zero

DomainError(m) ==
    SunsetDomainError(m) \/ SqrtDomainError(m) \/ HourAngleDomainError(m)

\* Month m's D comes from the second branch of np.where.
SecondBranch(m) == ~FGe(df.omega_ss[m], df.omega_sr[m])

\* The two integrals of the second branch for month m.
WrapI1(m) == Integral(MonthRow(df, m), df.omega_ss[m], FNeg(df.sunset_hour_angle[m]))

WrapI2(m) == Integral(MonthRow(df, m), df.sunset_hour_angle[m], df.omega_sr[m])

\* The sign condition of month m, written out.
SignCondOf(m) ==
    \/ (FGt(df.A[m], Zero) /\ FGt(df.B[m], Zero))
    \/ FGe(df.A[m], df.B[m])

(***************************************************************************)
(* The annual aggregation on its own, in binary64: the return statement of *)
(* calcAnnualWeightedAveInsolation applied to a frame whose                *)
(* insolation_tilted column is the constant series c, for c the double     *)
(* nearest to 0.00, 0.01, ... MaxHundredths / 100.                         *)
(***************************************************************************)
MaxHundredths == 120

InitAgg ==
    /\ site \in Sites
    /\ call = "annual"
    /\ pc = "aggregate"
    /\ args = NoArgs
    /\ \E k \in 0 .. MaxHundredths :
          df = [insolation_tilted |-> [m \in Months |-> Div64(Nat64(k), 100)]]
    /\ ret = NoValue
    /\ reads = 0
    /\ opt = NoOpt

\* calcAnnualWeightedAveInsolation returns, np.dot accumulating in either order.
ReturnAnnualWeightedAve64 ==
    /\ call = "annual" /\ pc = "aggregate"
    /\ \E order \in DotOrders : ret' = AnnualWeightedAve64(df.insolation_tilted, order)
    /\ pc' = "done"
    /\ UNCHANGED <<site, call, args, df, reads, opt>>

NextAgg == ReturnAnnualWeightedAve64

SpecAgg == InitAgg /\ [][NextAgg]_vars

(***************************************************************************)
(* Properties.                                                             *)
(***************************************************************************)
\* The objective has just returned a value to the minimizer for a point at which
\* some month hit a domain error (a negative square-root argument, an arccos
\* argument outside [-1, 1], a division by zero).
FailedEvaluation ==
    /\ call = "optim" /\ pc = "minimize" /\ opt.evals >= 1
    /\ \E m \in Months : DomainError(m) \/ ZeroHorizontal(m)

\* C1, as claimed: whenever the objective calcAWAIforOptim is evaluated at a
\* point where the calculation hits a domain error, the value handed to the
\* minimizer is a finite penalty, never NaN.
C1_FinitePenaltyHanded == FailedEvaluation => IsNum(ret)

\* C1, as the code has it: whenever the objective calcAWAIforOptim is evaluated
\* at a point where the calculation hits a domain error, the value handed to the
\* minimizer is NaN: the NaN of the failing month goes through the dot product
\* and the division by -365 unchanged, and nothing replaces it by a penalty.
C1_NaNHanded == FailedEvaluation => IsNaN(ret)

\* C1 witness: a second evaluation has handed NaN to the minimizer after a first
\* one did (the search went on; no error was raised).
C1_Witness == FailedEvaluation /\ opt.evals >= 2 /\ IsNaN(ret) /\ IsNaN(opt.fbest)

\* x is 1.0 up to the resolution of the arithmetic (0.002).
NearOne(x) == IsNum(x) /\ IAbs(x.v - Scale) <= (2 * Scale) \div 1000

\* C3, as claimed: with slope = 0, every month whose r_bar is a number has
\* r_bar = 1.0, for every latitude and azimuth.
C3_RBarIsOne ==
    (Computed("r_bar") /\ args.slope = Zero)
      => \A m \in Months : IsNum(df.r_bar[m]) => NearOne(df.r_bar[m])

\* C3, as the code has it: with slope = 0, for every latitude, azimuth and month,
\* A = 1 and C = 0, the tilted hour angles are symmetric (omega_ss = -omega_sr)
\* and select the first branch of D, the ground-reflected term vanishes and
\* r_bar = D + diffuse_fraction with D floored at 0; so r_bar is the diffuse
\* fraction itself, not 1, in a month whose D is floored to 0.
C3_RBarAtSlopeZero ==
    (Computed("r_bar") /\ args.slope = Zero)
      => \A m \in Months :
            /\ df.A[m] = One
            /\ df.C[m] = Zero
            /\ df.omega_ss[m] = FNeg(df.omega_sr[m])
            /\ IsNum(df.omega_sr[m]) => ~SecondBranch(m)
            /\ df.r_bar[m] = FAdd(df.D[m], df.diffuse_fraction[m])
            /\ df.D[m] = Zero => df.r_bar[m] = df.diffuse_fraction[m]

\* C3 witness: a horizontal collector in a month of low clearness: D is floored to
\* 0 and r_bar is the diffuse fraction, above 1.1.
C3_Witness ==
    /\ Computed("r_bar") /\ args.slope = Zero
    /\ \E m \in Months :
          /\ df.D[m] = Zero
          /\ IsNum(df.r_bar[m]) /\ df.r_bar[m].v > (11 * Scale) \div 10

\* calcTotalInsolation or calcAnnualWeightedAveInsolation (a direct evaluation)
\* has computed df['insolation_tilted'].
DirectResult == call \in {"total", "annual"} /\ Computed("insolation_tilted")

\* C4: in a direct evaluation, a month that hits a domain error (a negative
\* A^2 - B^2 + C^2 under the square root, an arccos argument outside [-1, 1])
\* ends with insolation_tilted = NaN, neither floored to 0 nor clipped nor
\* selected away, and every other month (of non-zero horizontal insolation)
\* keeps a number.
C4_NaNPerMonth ==
    DirectResult
      => \A m \in Months :
            /\ DomainError(m) => IsNaN(df.insolation_tilted[m])
            /\ (~DomainError(m) /\ ~ZeroHorizontal(m)) => IsNum(df.insolation_tilted[m])

\* C4 witness: one month took the square root of a negative number and is NaN,
\* another took arccos outside [-1, 1] or not, and some month is a number.
C4_Witness ==
    /\ DirectResult /\ pc = "done"
    /\ \E m \in Months : SqrtDomainError(m) /\ df.C[m] # Zero
                          /\ IsNaN(df.insolation_tilted[m])
    /\ \E m \in Months : IsNum(df.insolation_tilted[m])

\* C5: a month whose horizontal insolation is exactly 0, with a non-zero
\* extraterrestrial insolation, has diffuse_fraction = NaN (0 * f(k) / 0, not
\* f(0) = 1.39), and the NaN carries through to its r_bar and insolation_tilted.
C5_ZeroOverZero ==
    \A m \in Months :
        (/\ Computed("diffuse_fraction")
         /\ ZeroHorizontal(m)
         /\ IsNum(df.ET_insol[m]) /\ df.ET_insol[m] # Zero)
          => /\ df.clearness[m] = Zero
             /\ IsNaN(df.diffuse_fraction[m])
             /\ Computed("r_bar") => IsNaN(df.r_bar[m])
             /\ Computed("insolation_tilted") => IsNaN(df.insolation_tilted[m])

\* C5 witness: such a month, at the end of calcTotalInsolation.
C5_Witness ==
    /\ Computed("insolation_tilted")
    /\ \E m \in Months :
          /\ ZeroHorizontal(m)
          /\ IsNum(df.ET_insol[m]) /\ df.ET_insol[m] # Zero
          /\ IsNaN(df.insolation_tilted[m])

\* The sum of the day-count weights.
RECURSIVE SumFrom(_, _)
SumFrom(w, m) == IF m = 0 THEN 0 ELSE SumFrom(w, m - 1) + w[m]

\* calcAnnualWeightedAveInsolation has returned the average of a constant series.
ConstantSeriesAveraged ==
    /\ call = "annual" /\ pc = "done"
    /\ \A m \in Months : df.insolation_tilted[m] = df.insolation_tilted[1]

\* The doubles x and y differ by at most n units in the last place of y.
Within64(x, y, n) ==
    IF x.m = BigZero \/ y.m = BigZero THEN x = y
    ELSE LET low == IMin(x.e, y.e)
             xs  == BigShl(x.m, x.e - low)
             ys  == BigShl(y.m, y.e - low)
         IN  BigCmp(IF BigCmp(xs, ys) >= 0 THEN BigSub(xs, ys) ELSE BigSub(ys, xs),
                    BigShl(BigOf(n), y.e - low)) <= 0

\* The double x has at most 44 significant bits, so that 365 * x is a double.
Short64(x) == x.m[1] % (2 ^ 9) = 0

\* C6, as claimed: the weights are [31, 28, 31, 30, 31, 30, 31, 31, 30, 31, 30,
\* 31], they sum to 365, and for every constant monthly series c
\* calcAnnualWeightedAveInsolation returns exactly c.
C6_ExactlyC ==
    /\ Weights = <<31, 28, 31, 30, 31, 30, 31, 31, 30, 31, 30, 31>>
    /\ SumFrom(Weights, 12) = 365
    /\ ConstantSeriesAveraged => ret = df.insolation_tilted[1]

\* C6, as the code has it: the weights are [31, 28, 31, 30, 31, 30, 31, 31, 30,
\* 31, 30, 31], they sum to 365, and for a constant monthly series c
\* calcAnnualWeightedAveInsolation returns c up to the rounding of its 12
\* products, 12 sums and one division, at most 16 units in the last place of
\* c, and exactly c when c has at most 44 significant bits (365 * c is then
\* computed without rounding).
C6_UpToRounding ==
    /\ Weights = <<31, 28, 31, 30, 31, 30, 31, 31, 30, 31, 30, 31>>
    /\ SumFrom(Weights, 12) = 365
    /\ ConstantSeriesAveraged
         => /\ Within64(ret, df.insolation_tilted[1], 16)
            /\ Short64(df.insolation_tilted[1]) => ret = df.insolation_tilted[1]

\* C6 witness: the average of the constant series 0.75 has come back as 0.75, in a
\* run next to those of the other series.
C6_Witness ==
    /\ ConstantSeriesAveraged
    /\ df.insolation_tilted[1] = Div64(Nat64(75), 100)
    /\ Short64(df.insolation_tilted[1])
    /\ ret = df.insolation_tilted[1]

\* C7: with azimuth = 0, C = 0, and wherever the tilted hour angles are defined
\* omega_sr_abs = omega_ss_abs and omega_ss = -omega_sr, on either side of the
\* sign condition.
C7_SymmetricAtAzimuthZero ==
    (Computed("omega_ss") /\ args.azimuth = Zero)
      => \A m \in Months :
            /\ df.C[m] = Zero
            /\ (IsNum(df.omega_sr_abs[m]) \/ IsNum(df.omega_ss_abs[m]))
                 => /\ df.omega_sr_abs[m] = df.omega_ss_abs[m]
                    /\ df.omega_ss[m] = FNeg(df.omega_sr[m])

\* C7 witness: azimuth = 0 with a month on the "otherwise" side of the sign
\* condition (omega_sr = +omega_sr_abs > 0, omega_ss = -omega_ss_abs) next to a
\* month on its first side.
C7_Witness ==
    /\ Computed("omega_ss") /\ args.azimuth = Zero
    /\ \E m \in Months : /\ ~SignCondOf(m)
                          /\ IsNum(df.omega_sr[m]) /\ df.omega_sr[m].v > 0
                          /\ df.omega_ss[m] = FNeg(df.omega_sr[m])
    /\ \E m \in Months : SignCondOf(m)

\* C8, as claimed: in the second branch of D each of the two integrals is floored
\* at 0 before they are added: D = max(0, I1) + max(0, I2).
C8_EachIntegralFloored ==
    Computed("D")
      => \A m \in Months :
            (SecondBranch(m) /\ IsNum(WrapI1(m)) /\ IsNum(WrapI2(m)))
              => df.D[m] = FAdd(FMax(Zero, WrapI1(m)), FMax(Zero, WrapI2(m)))

\* C8, as the code has it: in the second branch of D (taken when omega_ss >=
\* omega_sr does not hold) the integrals over [-sunset_hour_angle, omega_ss] and
\* [omega_sr, sunset_hour_angle] are added first and the sum is floored at 0
\* once: D = max(0, I1 + I2).
C8_SumFlooredOnce ==
    Computed("D")
      => \A m \in Months :
            SecondBranch(m) => df.D[m] = FMax(Zero, FAdd(WrapI1(m), WrapI2(m)))

\* C8 witness: a second-branch month whose integrals have opposite signs and a
\* positive sum.
C8_Witness ==
    /\ Computed("D")
    /\ \E m \in Months :
          /\ SecondBranch(m)
          /\ IsNum(WrapI1(m)) /\ IsNum(WrapI2(m))
          /\ WrapI1(m).v < 0 /\ WrapI2(m).v > 0
          /\ WrapI1(m).v + WrapI2(m).v > 0
          /\ df.D[m] = Num(WrapI1(m).v + WrapI2(m).v)

\* C9: in every month, if (A > 0 and B > 0) or (A >= B) then
\* omega_sr = -omega_sr_abs and omega_ss = +omega_ss_abs, otherwise
\* omega_sr = +omega_sr_abs and omega_ss = -omega_ss_abs; omega_sr_abs and
\* omega_ss_abs are never negative and never exceed sunset_hour_angle.
C9_SignSelection ==
    Computed("omega_ss")
      => \A m \in Months :
            /\ SignCondOf(m) => /\ df.omega_sr[m] = FNeg(df.omega_sr_abs[m])
                                /\ df.omega_ss[m] = df.omega_ss_abs[m]
            /\ ~SignCondOf(m) => /\ df.omega_sr[m] = df.omega_sr_abs[m]
                                 /\ df.omega_ss[m] = FNeg(df.omega_ss_abs[m])
            /\ ~FLt(df.omega_sr_abs[m], Zero) /\ ~FLt(df.omega_ss_abs[m], Zero)
            /\ ~FGt(df.omega_sr_abs[m], df.sunset_hour_angle[m])
            /\ ~FGt(df.omega_ss_abs[m], df.sunset_hour_angle[m])

\* C9 witness: one frame with a month on each side of the condition, the hour
\* angles non-zero, and a month whose sunset angle alone is clipped to the sunset
\* hour angle.
C9_Witness ==
    /\ Computed("omega_ss")
    /\ \E m \in Months : /\ SignCondOf(m)
                          /\ IsNum(df.omega_sr[m]) /\ df.omega_sr[m].v < 0
    /\ \E m \in Months : /\ ~SignCondOf(m)
                          /\ IsNum(df.omega_sr[m]) /\ df.omega_sr[m].v > 0
    /\ \E m \in Months : /\ IsNum(df.omega_ss_abs[m])
                          /\ df.omega_ss_abs[m] = df.sunset_hour_angle[m]
                          /\ df.omega_sr_abs[m] # df.sunset_hour_angle[m]

\* C10, as claimed: over a whole getOptimSlopeAz run the dataset is read once:
\* no objective evaluation reads it again.
C10_DataReadOnce == call = "optim" => reads <= 1

\* C10, as the code has it: every objective evaluation reads the dataset again,
\* once, before any of its geometry is computed: the reads made so far are the
\* evaluations begun so far (less the one whose read is still to come).
C10_ReadPerEvaluation ==
    call = "optim"
      => reads = opt.evals - (IF pc = "read" THEN 1 ELSE 0)

\* C10 witness: getOptimSlopeAz has returned after two or more evaluations, each
\* with its own read.
C10_Witness == call = "optim" /\ pc = "done" /\ reads >= 2 /\ reads = opt.evals

=============================================================================
